---- MODULE Spec2Model ----
(***************************************************************************)
(* Model of the MCNode agent (src/main.go): the identity resolver, the     *)
(* bearer-token middleware, the container lifecycle handlers, the file     *)
(* handlers and the WebSocket console bridge.                              *)
(*                                                                         *)
(* Go strings are sequences of one-character strings, so that splitting,   *)
(* prefix tests and the sanitising regular expression are computed         *)
(* character by character as the code computes them.                       *)
(***************************************************************************)
EXTENDS Naturals, Sequences, FiniteSets

VARIABLES
    \* ---- identity resolver, applied to drawn inputs
    idIn,        \* <<serverName, userEmail>> handed to the resolver
    idOut,       \* results of the calls made so far (a sequence of identities)
    \* ---- external runtime and host filesystem
    container,   \* identity -> state of the container in the runtime
    volume,      \* identities whose directory volume/<identity> exists
    files,       \* identities whose directory holds the file volume/<identity>/f
    \* ---- HTTP front
    pending,     \* identity -> number of Create requests between MkdirAll and docker create
    last,        \* the most recently answered request and what it did
    \* ---- console session
    cpc,         \* position of consoleHandler (the command loop task)
    rpc,         \* position of the log relay goroutine
    sess         \* the remaining session state (a record)

vars == <<idIn, idOut, container, volume, files, pending, last, cpc, rpc, sess>>

(***************************************************************************)
(* Bounds of the model.                                                    *)
(***************************************************************************)
MaxLen == 2        \* longest serverName / userEmail drawn for the resolver
MaxCalls == 2      \* calls of the resolver on one input
MaxInFlight == 1   \* Create requests between their two runtime-visible steps
MaxInbound == 2    \* inbound frames read by one console session after the initial one
MaxChunks == 2     \* chunks read from the log-follow stream by one session

(***************************************************************************)
(* Characters.                                                             *)
(***************************************************************************)
Lower == {"a","b","c","d","e","f","g","h","i","j","k","l","m",
          "n","o","p","q","r","s","t","u","v","w","x","y","z"}
Upper == {"A","B","C","D","E","F","G","H","I","J","K","L","M",
          "N","O","P","Q","R","S","T","U","V","W","X","Y","Z"}
Digit == {"0","1","2","3","4","5","6","7","8","9"}

\* The characters the resolver is exercised on: one of each class the
\* regular expression distinguishes, the separator and two it strips.
Alphabet == {"a", "Z", "7", ".", "-", "@", "!"}

RECURSIVE StrsOfLen(_)
StrsOfLen(n) ==
    IF n = 0 THEN {<<>>}
    ELSE {Append(s, c) : s \in StrsOfLen(n - 1), c \in Alphabet}

Strs == UNION {StrsOfLen(n) : n \in 0..MaxLen}

(***************************************************************************)
(* Identity resolver.                                                      *)
(***************************************************************************)
\* strings.Split(s, sep) for a one-character separator: the pieces between
\* all occurrences of sep; always at least one piece.
RECURSIVE Split(_, _)
Split(s, sep) ==
    IF \A i \in 1..Len(s) : s[i] # sep
    THEN <<s>>
    ELSE LET i == CHOOSE k \in 1..Len(s) :
                      s[k] = sep /\ \A j \in 1..(k - 1) : s[j] # sep
         IN  <<SubSeq(s, 1, i - 1)>> \o Split(SubSeq(s, i + 1, Len(s)), sep)

extractUserIdLastPart(email) ==
    LET parts == Split(email, "@")
    IN  IF Len(parts) > 0 THEN parts[Len(parts)] ELSE <<"u","s","e","r">>

extractUserId(email) ==
    LET parts == Split(email, "@")
    IN  IF Len(parts) > 0 THEN parts[1] ELSE <<"u","s","e","r">>

\* dockerNameRe = [^a-zA-Z0-9.-]: a character matches when it is outside the class.
NameChars == Lower \cup Upper \cup Digit \cup {".", "-"}

dockerNameRe(c) == c \notin NameChars

\* ReplaceAllString(s, ""): every match is replaced by the empty string.
RECURSIVE ReplaceAllEmpty(_)
ReplaceAllEmpty(s) ==
    IF s = <<>> THEN <<>>
    ELSE (IF dockerNameRe(Head(s)) THEN <<>> ELSE <<Head(s)>>)
         \o ReplaceAllEmpty(Tail(s))

sanitizeDockerName(s) == ReplaceAllEmpty(s)

buildContainerId(serverName, userId) ==
    LET raw == serverName \o <<"-">> \o userId
    IN  sanitizeDockerName(raw)

\* The resolution every handler performs: buildContainerId(name, extractUserId(email)).
Resolve(serverName, userEmail) == buildContainerId(serverName, extractUserId(userEmail))

(***************************************************************************)
(* External runtime (the docker CLI the handlers shell out to).  Each      *)
(* operator gives the exit status and the container's next state for one   *)
(* subcommand applied to a container in state st.                          *)
(***************************************************************************)
ContainerStates == {"Absent", "Created", "Running", "Stopped"}

\* docker create --name <id>: a name in use is a conflict (non-zero exit).
DockerCreate(st) ==
    IF st = "Absent" THEN [ok |-> TRUE, st |-> "Created"]
    ELSE [ok |-> FALSE, st |-> st]

\* docker start <id>: fails for an unknown container, otherwise it runs.
DockerStart(st) ==
    IF st = "Absent" THEN [ok |-> FALSE, st |-> st]
    ELSE [ok |-> TRUE, st |-> "Running"]

\* docker stop <id>: fails for an unknown container; stops a running one.
DockerStop(st) ==
    IF st = "Absent" THEN [ok |-> FALSE, st |-> st]
    ELSE [ok |-> TRUE, st |-> IF st = "Running" THEN "Stopped" ELSE st]

\* docker restart <id>.
DockerRestart(st) ==
    IF st = "Absent" THEN [ok |-> FALSE, st |-> st]
    ELSE [ok |-> TRUE, st |-> "Running"]

\* docker inspect -f {{.State.Status}} <id>: the runtime's state string.
DockerInspect(st) ==
    CASE st = "Absent"  -> [ok |-> FALSE, out |-> ""]
      [] st = "Created" -> [ok |-> TRUE, out |-> "created"]
      [] st = "Running" -> [ok |-> TRUE, out |-> "running"]
      [] st = "Stopped" -> [ok |-> TRUE, out |-> "exited"]

(***************************************************************************)
(* Requests.                                                               *)
(***************************************************************************)
\* HANDSHAKE_TOKEN as loadToken returns it: never empty.
Token == <<"t", "k">>

Bearer == <<"B", "e", "a", "r", "e", "r", " ">>

\* Authorization headers: absent, the token without the scheme, the right
\* token, a wrong token.
Headers ==
    { <<>>,
      Token,
      Bearer \o Token,
      Bearer \o <<"n", "o">> }

Methods == {"GET", "POST", "DELETE"}

ServerNames == {<<>>, <<"s">>, <<"s", "!">>}
UserEmails == {<<>>, <<"u", "@", "x">>, <<"v">>}
Softwares == {<<>>, <<"p">>}

\* Every identity a handler can resolve from the names above.
Ids == {Resolve(n, e) : n \in ServerNames, e \in UserEmails}

\* A decoded JSON body (or query string); jsonOk is FALSE when decoding fails.
Bodies ==
    {[jsonOk |-> FALSE, serverName |-> <<>>, userEmail |-> <<>>, software |-> <<>>]}
    \cup [jsonOk : {TRUE}, serverName : ServerNames, userEmail : UserEmails,
          software : Softwares]

\* File requests name the file volume/<dir>/f; dir is <<>> when the path is missing.
Dirs == {<<>>} \cup {Resolve(n, e) : n \in ServerNames \ {<<>>}, e \in UserEmails \ {<<>>}}

Routes == {"/server/create", "/server/start", "/server/stop", "/server/restart",
           "/server/status", "/ws/console", "/file_manager", "/file/upload",
           "/file/download"}

HasPrefix(s, prefix) ==
    Len(s) >= Len(prefix) /\ SubSeq(s, 1, Len(prefix)) = prefix

TrimPrefix(s, prefix) ==
    IF HasPrefix(s, prefix) THEN SubSeq(s, Len(prefix) + 1, Len(s)) ELSE s

RECURSIVE SumOver(_, _)
SumOver(f, S) ==
    IF S = {} THEN 0
    ELSE LET x == CHOOSE y \in S : TRUE IN f[x] + SumOver(f, S \ {x})

InFlight == SumOver(pending, Ids)

NoResponse ==
    [route |-> "", code |-> 0, id |-> <<>>, pre |-> "-", post |-> "-", cmd |-> "none"]

\* The response written for a request, with what the handler did for it: the
\* runtime subcommand it ran last and the container's state around it.
Respond(route, code, id, pre, post, cmd) ==
    last' = [route |-> route, code |-> code, id |-> id, pre |-> pre, post |-> post,
             cmd |-> cmd]

Answer(route, code) == Respond(route, code, <<>>, "-", "-", "none")

ConsoleVars == <<cpc, rpc, sess>>
IdVars == <<idIn, idOut>>

(***************************************************************************)
(* Middleware.                                                             *)
(***************************************************************************)
tokenMiddlewareAnyBearer(expected, auth) == HasPrefix(auth, Bearer)

\* TRUE when the request is handed to next.ServeHTTP, FALSE when it is
\* answered 401 by the middleware.
tokenMiddleware(expected, auth) ==
    IF ~HasPrefix(auth, Bearer) THEN FALSE
    ELSE LET token == TrimPrefix(auth, Bearer)
         IN  IF token # expected THEN FALSE ELSE TRUE

Unauthorized(route) ==
    /\ Answer(route, 401)
    /\ UNCHANGED <<container, volume, files, pending, ConsoleVars, IdVars>>

(***************************************************************************)
(* Lifecycle handlers.                                                     *)
(***************************************************************************)
createServerHandlerIgnoresMkdir(method, body, mkdirOk) ==
    LET route == "/server/create" IN
    IF method # "POST" THEN
        /\ Answer(route, 405)
        /\ UNCHANGED <<container, volume, files, pending>>
    ELSE IF ~body.jsonOk THEN
        /\ Answer(route, 400)
        /\ UNCHANGED <<container, volume, files, pending>>
    ELSE IF body.serverName = <<>> \/ body.userEmail = <<>> \/ body.software = <<>> THEN
        /\ Answer(route, 400)
        /\ UNCHANGED <<container, volume, files, pending>>
    ELSE
        LET userId == extractUserId(body.userEmail)
            containerId == buildContainerId(body.serverName, userId)
        IN  /\ InFlight < MaxInFlight
            /\ volume' = IF mkdirOk THEN volume \cup {containerId} ELSE volume
            /\ pending' = [pending EXCEPT ![containerId] = @ + 1]
            /\ UNCHANGED <<container, files, last>>

\* createServerHandler up to and including os.MkdirAll.  mkdirOk is the
\* filesystem's answer when the directory has to be created.
createServerHandler(method, body, mkdirOk) ==
    LET route == "/server/create" IN
    IF method # "POST" THEN
        /\ Answer(route, 405)
        /\ UNCHANGED <<container, volume, files, pending>>
    ELSE IF ~body.jsonOk THEN
        /\ Answer(route, 400)
        /\ UNCHANGED <<container, volume, files, pending>>
    ELSE IF body.serverName = <<>> \/ body.userEmail = <<>> \/ body.software = <<>> THEN
        /\ Answer(route, 400)
        /\ UNCHANGED <<container, volume, files, pending>>
    ELSE
        LET userId == extractUserId(body.userEmail)
            containerId == buildContainerId(body.serverName, userId)
        IN  IF containerId \notin volume /\ ~mkdirOk THEN
                /\ Respond(route, 500, containerId, container[containerId],
                           container[containerId], "none")
                /\ UNCHANGED <<container, volume, files, pending>>
            ELSE
                /\ InFlight < MaxInFlight
                /\ volume' = volume \cup {containerId}
                /\ pending' = [pending EXCEPT ![containerId] = @ + 1]
                /\ UNCHANGED <<container, files, last>>

\* The rest of createServerHandler: docker pull, docker create, the response.
createServerRuntime(containerId, pullOk) ==
    LET route == "/server/create"
        pre == container[containerId]
        res == DockerCreate(pre)
    IN  /\ cpc # "crashed"
        /\ pending[containerId] > 0
        /\ pending' = [pending EXCEPT ![containerId] = @ - 1]
        /\ IF ~pullOk THEN
               /\ Respond(route, 500, containerId, pre, pre, "pull")
               /\ UNCHANGED container
           ELSE
               /\ container' = [container EXCEPT ![containerId] = res.st]
               /\ Respond(route, IF res.ok THEN 200 ELSE 500, containerId, pre,
                          res.st, "create")
        /\ UNCHANGED <<volume, files, ConsoleVars, IdVars>>

startServerHandlerStops(body) ==
    LET route == "/server/start" IN
    IF ~body.jsonOk \/ body.serverName = <<>> \/ body.userEmail = <<>> THEN
        /\ Answer(route, 400)
        /\ UNCHANGED <<container, volume, files, pending>>
    ELSE
        LET containerId == buildContainerId(body.serverName, extractUserId(body.userEmail))
            pre == container[containerId]
            res == DockerStop(pre)
        IN  /\ container' = [container EXCEPT ![containerId] = res.st]
            /\ Respond(route, IF res.ok THEN 200 ELSE 500, containerId, pre, res.st,
                       "stop")
            /\ UNCHANGED <<volume, files, pending>>

startServerHandler(body) ==
    LET route == "/server/start" IN
    IF ~body.jsonOk THEN
        /\ Answer(route, 400)
        /\ UNCHANGED <<container, volume, files, pending>>
    ELSE IF body.serverName = <<>> \/ body.userEmail = <<>> THEN
        /\ Answer(route, 400)
        /\ UNCHANGED <<container, volume, files, pending>>
    ELSE
        LET containerId == buildContainerId(body.serverName, extractUserId(body.userEmail))
            pre == container[containerId]
            res == DockerStart(pre)
        IN  /\ container' = [container EXCEPT ![containerId] = res.st]
            /\ Respond(route, IF res.ok THEN 200 ELSE 500, containerId, pre, res.st,
                       "start")
            /\ UNCHANGED <<volume, files, pending>>

stopServerHandlerSilent(body) ==
    LET route == "/server/stop" IN
    IF ~body.jsonOk \/ body.serverName = <<>> \/ body.userEmail = <<>> THEN
        /\ Answer(route, 400)
        /\ UNCHANGED <<container, volume, files, pending>>
    ELSE
        LET containerId == buildContainerId(body.serverName, extractUserId(body.userEmail))
            pre == container[containerId]
            res == DockerStop(pre)
        IN  /\ container' = [container EXCEPT ![containerId] = res.st]
            /\ Respond(route, 200, containerId, pre, res.st, "stop")
            /\ UNCHANGED <<volume, files, pending>>

stopServerHandler(body) ==
    LET route == "/server/stop" IN
    IF ~body.jsonOk THEN
        /\ Answer(route, 400)
        /\ UNCHANGED <<container, volume, files, pending>>
    ELSE IF body.serverName = <<>> \/ body.userEmail = <<>> THEN
        /\ Answer(route, 400)
        /\ UNCHANGED <<container, volume, files, pending>>
    ELSE
        LET containerId == buildContainerId(body.serverName, extractUserId(body.userEmail))
            pre == container[containerId]
            res == DockerStop(pre)
        IN  /\ container' = [container EXCEPT ![containerId] = res.st]
            /\ Respond(route, IF res.ok THEN 200 ELSE 500, containerId, pre, res.st,
                       "stop")
            /\ UNCHANGED <<volume, files, pending>>

restartServerHandlerUnvalidated(body) ==
    LET route == "/server/restart" IN
    IF ~body.jsonOk THEN
        /\ Answer(route, 400)
        /\ UNCHANGED <<container, volume, files, pending>>
    ELSE
        LET containerId == buildContainerId(body.serverName, extractUserId(body.userEmail))
            pre == container[containerId]
            res == DockerRestart(pre)
        IN  /\ container' = [container EXCEPT ![containerId] = res.st]
            /\ Respond(route, IF res.ok THEN 200 ELSE 500, containerId, pre, res.st,
                       "restart")
            /\ UNCHANGED <<volume, files, pending>>

restartServerHandler(body) ==
    LET route == "/server/restart" IN
    IF ~body.jsonOk THEN
        /\ Answer(route, 400)
        /\ UNCHANGED <<container, volume, files, pending>>
    ELSE IF body.serverName = <<>> \/ body.userEmail = <<>> THEN
        /\ Answer(route, 400)
        /\ UNCHANGED <<container, volume, files, pending>>
    ELSE
        LET containerId == buildContainerId(body.serverName, extractUserId(body.userEmail))
            pre == container[containerId]
            res == DockerRestart(pre)
        IN  /\ container' = [container EXCEPT ![containerId] = res.st]
            /\ Respond(route, IF res.ok THEN 200 ELSE 500, containerId, pre, res.st,
                       "restart")
            /\ UNCHANGED <<volume, files, pending>>

\* serverStatusHandler reads serverName and userEmail from the query string
\* (a missing parameter reads as the empty string); it decodes no body.
serverStatusHandler(serverName, userEmail) ==
    LET route == "/server/status" IN
    IF serverName = <<>> \/ userEmail = <<>> THEN
        /\ Answer(route, 400)
        /\ UNCHANGED <<container, volume, files, pending>>
    ELSE
        LET containerId == buildContainerId(serverName, extractUserId(userEmail))
            pre == container[containerId]
            res == DockerInspect(pre)
        IN  /\ Respond(route, IF res.ok THEN 200 ELSE 500, containerId, pre, pre,
                       "inspect")
            /\ UNCHANGED <<container, volume, files, pending>>

\* What GET /server/status answers for a container in state st: the code
\* and the message (the runtime's state string, trimmed).
StatusReport(st) ==
    LET res == DockerInspect(st)
    IN  IF res.ok THEN <<200, res.out>> ELSE <<500, "Failed to get status">>

(***************************************************************************)
(* File handlers of main.go.  They join the caller's path onto ./volume    *)
(* and create no directory: a write succeeds only under an existing one.   *)
(***************************************************************************)
fileManagerHandler(method, jsonOk, dir) ==
    LET route == "/file_manager" IN
    CASE method = "GET" ->
            /\ Answer(route, IF dir = <<>> THEN 400
                             ELSE IF dir \in files THEN 200 ELSE 500)
            /\ UNCHANGED <<container, volume, files, pending>>
      [] method = "POST" ->
            IF ~jsonOk THEN
                /\ Answer(route, 400)
                /\ UNCHANGED <<container, volume, files, pending>>
            ELSE IF dir \in volume THEN
                /\ files' = files \cup {dir}
                /\ Answer(route, 200)
                /\ UNCHANGED <<container, volume, pending>>
            ELSE
                /\ Answer(route, 500)
                /\ UNCHANGED <<container, volume, files, pending>>
      [] OTHER ->
            /\ Answer(route, 405)
            /\ UNCHANGED <<container, volume, files, pending>>

fileUploadHandler(hasFile, dir) ==
    LET route == "/file/upload" IN
    IF ~hasFile \/ dir = <<>> THEN
        /\ Answer(route, 400)
        /\ UNCHANGED <<container, volume, files, pending>>
    ELSE IF dir \in volume THEN
        /\ files' = files \cup {dir}
        /\ Answer(route, 200)
        /\ UNCHANGED <<container, volume, pending>>
    ELSE
        /\ Answer(route, 500)
        /\ UNCHANGED <<container, volume, files, pending>>

fileDownloadHandler(dir) ==
    LET route == "/file/download" IN
    /\ Answer(route, IF dir = <<>> THEN 400 ELSE IF dir \in files THEN 200 ELSE 404)
    /\ UNCHANGED <<container, volume, files, pending>>

(***************************************************************************)
(* The handlers of files/upload and files/delete.  main registers neither  *)
(* on its mux, so they are entered directly, behind no middleware.  A      *)
(* request path is "f" (a file of the data directory) or "." (which        *)
(* filepath.Join cleans to the data directory itself).                     *)
(***************************************************************************)
\* The per-identity data directory, named by the resolved identity: the
\* directory Create provisions.
getServerDataDir(serverName, userEmail) == Resolve(serverName, userEmail)

UploadPaths == {"", "f"}
DeletePaths == {"", "f", "."}
Contents == {"", "%", "aGk="}

\* base64.StdEncoding.DecodeString rejects a character outside its alphabet.
DecodeOk(contentBase64) == contentBase64 # "%"

uploadFileHandler(req, mkdirOk) ==
    LET route == "uploadFileHandler" IN
    IF ~req.jsonOk THEN
        /\ Answer(route, 400)
        /\ UNCHANGED <<container, volume, files, pending>>
    ELSE IF req.serverName = <<>> \/ req.userEmail = <<>> \/ req.path = ""
            \/ req.contentBase64 = "" THEN
        /\ Answer(route, 400)
        /\ UNCHANGED <<container, volume, files, pending>>
    ELSE
        LET baseDir == getServerDataDir(req.serverName, req.userEmail)
        IN  IF ~DecodeOk(req.contentBase64) THEN
                /\ Respond(route, 400, baseDir, "-", "-", "none")
                /\ UNCHANGED <<container, volume, files, pending>>
            ELSE IF baseDir \notin volume /\ ~mkdirOk THEN
                /\ Respond(route, 500, baseDir, "-", "-", "none")
                /\ UNCHANGED <<container, volume, files, pending>>
            ELSE
                \* os.MkdirAll(filepath.Dir(fullPath)), then os.WriteFile
                /\ volume' = volume \cup {baseDir}
                /\ files' = files \cup {baseDir}
                /\ Respond(route, 200, baseDir, "-", "-", "none")
                /\ UNCHANGED <<container, pending>>

\* os.Remove removes the named file, or the named directory when it is
\* empty; it fails on a missing name and on a directory with entries.
deleteFileHandler(req) ==
    LET route == "deleteFileHandler" IN
    IF ~req.jsonOk THEN
        /\ Answer(route, 400)
        /\ UNCHANGED <<container, volume, files, pending>>
    ELSE IF req.serverName = <<>> \/ req.userEmail = <<>> \/ req.path = "" THEN
        /\ Answer(route, 400)
        /\ UNCHANGED <<container, volume, files, pending>>
    ELSE
        LET baseDir == getServerDataDir(req.serverName, req.userEmail)
        IN  IF req.path = "." THEN
                IF baseDir \in volume /\ baseDir \notin files THEN
                    /\ volume' = volume \ {baseDir}
                    /\ Respond(route, 200, baseDir, "-", "-", "none")
                    /\ UNCHANGED <<container, files, pending>>
                ELSE
                    /\ Respond(route, 500, baseDir, "-", "-", "none")
                    /\ UNCHANGED <<container, volume, files, pending>>
            ELSE IF baseDir \in files THEN
                /\ files' = files \ {baseDir}
                /\ Respond(route, 200, baseDir, "-", "-", "none")
                /\ UNCHANGED <<container, volume, pending>>
            ELSE
                /\ Respond(route, 500, baseDir, "-", "-", "none")
                /\ UNCHANGED <<container, volume, files, pending>>

(***************************************************************************)
(* Console bridge: one session.  consoleHandler is the command loop task;  *)
(* the goroutine it starts is the log relay.  A call of conn.WriteMessage  *)
(* is an interval: a task is at "writing" from the call to its return.     *)
(***************************************************************************)
NoSession ==
    [conn |-> "none",          \* "none", "open" or "closed" (conn.Close has run)
     initBad |-> FALSE,        \* the initial message did not parse
     containerId |-> <<>>,     \* identity bound to the session
     emptyName |-> FALSE,      \* identity resolved from an empty serverName or userEmail
     logCmd |-> "none",        \* log-follow subprocess: "none", "running", "exited", "killed"
     killIssued |-> FALSE,     \* logCmd.Process.Kill() has been called
     inbound |-> 0,            \* frames read by the command loop
     cmds |-> 0,               \* of which: action "command" with a non-empty command
     execs |-> 0,              \* docker exec invocations completed
     chunks |-> 0,             \* chunks read from the log-follow stream
     werr |-> FALSE,           \* a write on the connection has failed
     panicked |-> FALSE,       \* consoleHandler left by a panic
     sent |-> <<>>]            \* frames handed to conn.WriteMessage, in call order

Frame(by, kind, n) == [by |-> by, kind |-> kind, n |-> n]

\* Initial control messages and later inbound frames, as ReadMessage and
\* json.Unmarshal deliver them.
InitMessages ==
    {[err |-> TRUE, jsonOk |-> FALSE, serverName |-> <<>>, userEmail |-> <<>>],
     [err |-> FALSE, jsonOk |-> FALSE, serverName |-> <<>>, userEmail |-> <<>>]}
    \cup [err : {FALSE}, jsonOk : {TRUE}, serverName : ServerNames,
          userEmail : UserEmails]

InboundFrames ==
    {[err |-> TRUE, jsonOk |-> FALSE, action |-> "", command |-> ""],
     [err |-> FALSE, jsonOk |-> FALSE, action |-> "", command |-> ""]}
    \cup [err : {FALSE}, jsonOk : {TRUE}, action : {"command", "ping"},
          command : {"", "say hi"}]

AttachOutcomes == {"ok", "pipeErr", "startErr"}

\* upgrader.Upgrade and the deferred conn.Close registration.  A failed
\* upgrade is logged and the handler returns: no session exists.
consoleUpgrade(upgradeOk) ==
    /\ cpc = "idle"
    /\ IF ~upgradeOk THEN
           /\ Answer("/ws/console", 400)
           /\ cpc' = "idle"
           /\ sess' = sess
       ELSE
           /\ Answer("/ws/console", 101)
           /\ cpc' = "readInit"
           /\ sess' = [sess EXCEPT !.conn = "open"]
    /\ UNCHANGED <<rpc, container, volume, files, pending>>

consoleInitAttachesOnBadJson(msg, attach) ==
    /\ cpc = "readInit"
    /\ IF msg.err THEN
           /\ cpc' = "returned"
           /\ rpc' = rpc
           /\ sess' = [sess EXCEPT !.conn = "closed"]
       ELSE
           /\ cpc' = "loopRead"
           /\ rpc' = "read"
           /\ sess' = [sess EXCEPT !.initBad = ~msg.jsonOk,
                                   !.sent = IF msg.jsonOk THEN @
                                            ELSE Append(@, Frame("cmd", "initError", 0)),
                                   !.containerId = Resolve(msg.serverName, msg.userEmail),
                                   !.logCmd = "running"]
    /\ UNCHANGED <<container, volume, files, pending, last, IdVars>>

\* consoleHandler from the initial ReadMessage to the start of the relay
\* goroutine.  No other task of the session exists yet, so the error frames
\* written here cannot overlap another write.
consoleInit(msg, attach) ==
    /\ cpc = "readInit"
    /\ IF msg.err THEN
           \* failed to read the initial message: return (deferred Close)
           /\ cpc' = "returned"
           /\ rpc' = rpc
           /\ sess' = [sess EXCEPT !.conn = "closed"]
       ELSE IF ~msg.jsonOk THEN
           /\ cpc' = "returned"
           /\ rpc' = rpc
           /\ sess' = [sess EXCEPT !.initBad = TRUE,
                                   !.sent = Append(@, Frame("cmd", "initError", 0)),
                                   !.conn = "closed"]
       ELSE
           LET userId == extractUserId(msg.userEmail)
               containerId == buildContainerId(msg.serverName, userId)
               bound == [sess EXCEPT !.containerId = containerId,
                                     !.emptyName = (msg.serverName = <<>>
                                                    \/ msg.userEmail = <<>>)]
           IN  IF attach # "ok" THEN
                   /\ cpc' = "returned"
                   /\ rpc' = rpc
                   /\ sess' = [bound EXCEPT !.sent = Append(@, Frame("cmd", attach, 0)),
                                            !.conn = "closed"]
               ELSE
                   /\ cpc' = "loopRead"
                   /\ rpc' = "read"
                   /\ sess' = [bound EXCEPT !.logCmd = "running"]
    /\ UNCHANGED <<container, volume, files, pending, last, IdVars>>

cmdReadAnyAction(frame) ==
    /\ cpc = "loopRead"
    /\ frame.err \/ sess.inbound < MaxInbound
    /\ IF frame.err THEN
           /\ cpc' = "kill"
           /\ sess' = sess
       ELSE IF ~frame.jsonOk THEN
           /\ cpc' = "writing"
           /\ sess' = [sess EXCEPT !.inbound = @ + 1,
                                   !.sent = Append(@, Frame("cmd", "payloadError",
                                                            sess.inbound + 1))]
       ELSE IF frame.command # "" THEN
           /\ cpc' = "exec"
           /\ sess' = [sess EXCEPT !.inbound = @ + 1, !.cmds = @ + 1]
       ELSE
           /\ cpc' = "loopRead"
           /\ sess' = [sess EXCEPT !.inbound = @ + 1]
    /\ UNCHANGED <<rpc, container, volume, files, pending, last, IdVars>>

\* The command loop's ReadMessage and what follows it up to the next
\* blocking call (docker exec, WriteMessage or the next ReadMessage).
cmdRead(frame) ==
    /\ cpc = "loopRead"
    /\ frame.err \/ sess.inbound < MaxInbound
    /\ IF frame.err THEN
           /\ cpc' = "kill"
           /\ sess' = sess
       ELSE IF ~frame.jsonOk THEN
           /\ cpc' = "writing"
           /\ sess' = [sess EXCEPT !.inbound = @ + 1,
                                   !.sent = Append(@, Frame("cmd", "payloadError",
                                                            sess.inbound + 1))]
       ELSE IF frame.action = "command" /\ frame.command # "" THEN
           /\ cpc' = "exec"
           /\ sess' = [sess EXCEPT !.inbound = @ + 1, !.cmds = @ + 1]
       ELSE
           /\ cpc' = "loopRead"
           /\ sess' = [sess EXCEPT !.inbound = @ + 1]
    /\ UNCHANGED <<rpc, container, volume, files, pending, last, IdVars>>

cmdExecDropsFailure(execOk) ==
    /\ cpc = "exec"
    /\ execOk => container[sess.containerId] = "Running"
    /\ IF execOk THEN
           /\ cpc' = "writing"
           /\ sess' = [sess EXCEPT !.execs = @ + 1,
                                   !.sent = Append(@, Frame("cmd", "result", sess.inbound))]
       ELSE
           /\ cpc' = "loopRead"
           /\ sess' = [sess EXCEPT !.execs = @ + 1]
    /\ UNCHANGED <<rpc, container, volume, files, pending, last, IdVars>>

\* docker exec <id> rcon-cli <command> returns (CombinedOutput); the result,
\* success output or failure text, is handed to WriteMessage.
cmdExec(execOk) ==
    /\ cpc = "exec"
    /\ execOk => container[sess.containerId] = "Running"
    /\ cpc' = "writing"
    /\ sess' = [sess EXCEPT !.execs = @ + 1,
                            !.sent = Append(@, Frame("cmd", IF execOk THEN "result"
                                                            ELSE "failed", sess.inbound))]
    /\ UNCHANGED <<rpc, container, volume, files, pending, last, IdVars>>

\* WriteMessage returns to the command loop; its error is not looked at.
cmdWriteEnd(ok) ==
    /\ cpc = "writing"
    /\ sess.werr => ~ok
    /\ cpc' = "loopRead"
    /\ sess' = [sess EXCEPT !.werr = @ \/ ~ok]
    /\ UNCHANGED <<rpc, container, volume, files, pending, last, IdVars>>

\* logCmd.Process.Kill() after the loop.
cmdKill ==
    /\ cpc = "kill"
    /\ cpc' = "closing"
    /\ sess' = [sess EXCEPT !.killIssued = TRUE,
                            !.logCmd = IF @ = "running" THEN "killed" ELSE @]
    /\ UNCHANGED <<rpc, container, volume, files, pending, last, IdVars>>

\* consoleHandler returns; the deferred conn.Close() runs.
cmdReturn ==
    /\ cpc = "closing"
    /\ cpc' = "returned"
    /\ sess' = [sess EXCEPT !.conn = "closed"]
    /\ UNCHANGED <<rpc, container, volume, files, pending, last, IdVars>>

relayReadContinuesOnError(eof) ==
    /\ rpc = "read"
    /\ IF eof THEN
           /\ sess.logCmd \in {"exited", "killed"}
           /\ rpc' = "read"
           /\ sess' = sess
       ELSE
           /\ sess.chunks < MaxChunks
           /\ rpc' = "writing"
           /\ sess' = [sess EXCEPT !.chunks = @ + 1,
                                   !.sent = Append(@, Frame("relay", "log",
                                                            sess.chunks + 1))]
    /\ UNCHANGED <<cpc, container, volume, files, pending, last, IdVars>>

relayReadEofCloses(eof) ==
    /\ rpc = "read"
    /\ IF eof THEN
           /\ sess.logCmd \in {"exited", "killed"}
           /\ rpc' = "done"
           /\ sess' = [sess EXCEPT !.conn = "closed"]
       ELSE
           /\ sess.chunks < MaxChunks
           /\ rpc' = "writing"
           /\ sess' = [sess EXCEPT !.chunks = @ + 1,
                                   !.sent = Append(@, Frame("relay", "log",
                                                            sess.chunks + 1))]
    /\ UNCHANGED <<cpc, container, volume, files, pending, last, IdVars>>

relayReadDropsFirst(eof) ==
    /\ rpc = "read"
    /\ IF eof THEN
           /\ sess.logCmd \in {"exited", "killed"}
           /\ rpc' = "done"
           /\ sess' = sess
       ELSE
           /\ sess.chunks < MaxChunks
           /\ rpc' = "writing"
           /\ sess' = [sess EXCEPT !.chunks = @ + 1,
                                   !.sent = IF sess.chunks = 0 THEN @
                                            ELSE Append(@, Frame("relay", "log",
                                                                 sess.chunks + 1))]
    /\ UNCHANGED <<cpc, container, volume, files, pending, last, IdVars>>

\* The relay's stdout.Read: a chunk (handed to WriteMessage at once) or an
\* error, which ends the goroutine.  The stream ends only once the
\* subprocess has exited or was killed.
relayRead(eof) ==
    /\ rpc = "read"
    /\ IF eof THEN
           /\ sess.logCmd \in {"exited", "killed"}
           /\ rpc' = "done"
           /\ sess' = sess
       ELSE
           /\ sess.chunks < MaxChunks
           /\ rpc' = "writing"
           /\ sess' = [sess EXCEPT !.chunks = @ + 1,
                                   !.sent = Append(@, Frame("relay", "log",
                                                            sess.chunks + 1))]
    /\ UNCHANGED <<cpc, container, volume, files, pending, last, IdVars>>

relayWriteEnd(ok) ==
    /\ rpc = "writing"
    /\ (sess.werr \/ sess.conn = "closed") => ~ok
    /\ rpc' = "read"
    /\ sess' = [sess EXCEPT !.werr = @ \/ ~ok]
    /\ UNCHANGED <<cpc, container, volume, files, pending, last, IdVars>>

\* Both tasks are inside WriteMessage on the one connection: nothing in
\* consoleHandler orders the two calls.  The websocket connection allows a
\* single writer at a time and panics when it detects a second one.  A
\* panic in consoleHandler unwinds it (the deferred Close runs, the kill
\* after the loop does not) and is recovered by the HTTP server.
cmdWritePanic ==
    /\ cpc = "writing"
    /\ rpc = "writing"
    /\ cpc' = "returned"
    /\ sess' = [sess EXCEPT !.conn = "closed", !.panicked = TRUE]
    /\ UNCHANGED <<rpc, container, volume, files, pending, last, IdVars>>

\* The same panic raised in the relay goroutine, where nothing recovers it:
\* the agent process ends.
relayWritePanic ==
    /\ cpc = "writing"
    /\ rpc = "writing"
    /\ cpc' = "crashed"
    /\ rpc' = "crashed"
    /\ sess' = sess
    /\ UNCHANGED <<container, volume, files, pending, last, IdVars>>

\* The log-follow subprocess ends by itself (docker logs -f returns when
\* the container is unknown or stops).
logCmdExit ==
    /\ sess.logCmd = "running"
    /\ cpc # "crashed"
    /\ sess' = [sess EXCEPT !.logCmd = "exited"]
    /\ UNCHANGED <<cpc, rpc, container, volume, files, pending, last, IdVars>>

(***************************************************************************)
(* main: every route is registered on one mux, and the mux is wrapped by   *)
(* the middleware.                                                         *)
(***************************************************************************)
\* The inputs the handlers are run on.  A component a handler never reads
\* on its path (the body of a request refused for its method, the
\* filesystem's answer when no directory is made) is drawn once, not varied.
NoBody == [jsonOk |-> FALSE, serverName |-> <<>>, userEmail |-> <<>>, software |-> <<>>]

CreateInputs ==
    {<<m, NoBody, TRUE>> : m \in Methods \ {"POST"}}
    \cup {<<"POST", b, ok>> : b \in Bodies, ok \in BOOLEAN}

\* Start, stop and restart decode the same struct and read two fields of it.
LifecycleBodies == {b \in Bodies : b.software = <<>>}

FileManagerInputs ==
    {<<"GET", TRUE, d>> : d \in Dirs}
    \cup {<<"POST", FALSE, <<>>>>}
    \cup {<<"POST", TRUE, d>> : d \in Dirs}
    \cup {<<"DELETE", TRUE, <<>>>>}

Mux(route) ==
    CASE route = "/server/create" ->
            /\ \E in \in CreateInputs : createServerHandler(in[1], in[2], in[3])
            /\ UNCHANGED <<ConsoleVars, IdVars>>
      [] route = "/server/start" ->
            /\ \E body \in LifecycleBodies : startServerHandler(body)
            /\ UNCHANGED <<ConsoleVars, IdVars>>
      [] route = "/server/stop" ->
            /\ \E body \in LifecycleBodies : stopServerHandler(body)
            /\ UNCHANGED <<ConsoleVars, IdVars>>
      [] route = "/server/restart" ->
            /\ \E body \in LifecycleBodies : restartServerHandler(body)
            /\ UNCHANGED <<ConsoleVars, IdVars>>
      [] route = "/server/status" ->
            /\ \E n \in ServerNames, e \in UserEmails : serverStatusHandler(n, e)
            /\ UNCHANGED <<ConsoleVars, IdVars>>
      [] route = "/ws/console" ->
            /\ \E upgradeOk \in BOOLEAN : consoleUpgrade(upgradeOk)
            /\ UNCHANGED IdVars
      [] route = "/file_manager" ->
            /\ \E in \in FileManagerInputs : fileManagerHandler(in[1], in[2], in[3])
            /\ UNCHANGED <<ConsoleVars, IdVars>>
      [] route = "/file/upload" ->
            /\ \E hasFile \in BOOLEAN, dir \in Dirs : fileUploadHandler(hasFile, dir)
            /\ UNCHANGED <<ConsoleVars, IdVars>>
      [] route = "/file/download" ->
            /\ \E dir \in Dirs : fileDownloadHandler(dir)
            /\ UNCHANGED <<ConsoleVars, IdVars>>

\* http.ListenAndServe(":25575", tokenMiddleware(token, mux)) serving one request.
Serve(route, auth) ==
    /\ cpc # "crashed"
    /\ IF tokenMiddleware(Token, auth) THEN Mux(route) ELSE Unauthorized(route)

CreateRequest ==
    \E auth \in Headers :
        /\ Serve("/server/create", auth)

CreateRuntime ==
    \E id \in Ids, pullOk \in BOOLEAN :
        /\ createServerRuntime(id, pullOk)

StartRequest ==
    \E auth \in Headers :
        /\ Serve("/server/start", auth)

StopRequest ==
    \E auth \in Headers :
        /\ Serve("/server/stop", auth)

RestartRequest ==
    \E auth \in Headers :
        /\ Serve("/server/restart", auth)

StatusRequest ==
    \E auth \in Headers :
        /\ Serve("/server/status", auth)

ConsoleRequest ==
    \E auth \in Headers :
        /\ Serve("/ws/console", auth)

FileManagerRequest ==
    \E auth \in Headers :
        /\ Serve("/file_manager", auth)

FileUploadRequest ==
    \E auth \in Headers :
        /\ Serve("/file/upload", auth)

FileDownloadRequest ==
    \E auth \in Headers :
        /\ Serve("/file/download", auth)

\* Decoded bodies of the two handlers: one that does not decode, the ones
\* with a missing field, and complete ones for the identities of Dirs.
NoFileReq ==
    [jsonOk |-> FALSE, serverName |-> <<>>, userEmail |-> <<>>, path |-> "",
     contentBase64 |-> ""]

FileNames == {<<<<>>, <<"u", "@", "x">>>>, <<<<"s">>, <<>>>>,
              <<<<"s">>, <<"u", "@", "x">>>>, <<<<"s", "!">>, <<"v">>>>}

UploadRequests ==
    {NoFileReq}
    \cup {[jsonOk |-> TRUE, serverName |-> ne[1], userEmail |-> ne[2], path |-> p,
           contentBase64 |-> c] : ne \in FileNames, p \in UploadPaths, c \in Contents}

DeleteRequests ==
    {NoFileReq}
    \cup {[jsonOk |-> TRUE, serverName |-> ne[1], userEmail |-> ne[2], path |-> p,
           contentBase64 |-> ""] : ne \in FileNames, p \in DeletePaths}

UploadFileCall ==
    \E req \in UploadRequests, mkdirOk \in BOOLEAN :
        /\ uploadFileHandler(req, mkdirOk)
        /\ UNCHANGED <<ConsoleVars, IdVars>>

DeleteFileCall ==
    \E req \in DeleteRequests :
        /\ deleteFileHandler(req)
        /\ UNCHANGED <<ConsoleVars, IdVars>>

ConsoleInit ==
    \E msg \in InitMessages, attach \in AttachOutcomes :
        /\ consoleInit(msg, attach)

CmdRead ==
    \E frame \in InboundFrames :
        /\ cmdRead(frame)

CmdExec ==
    \E execOk \in BOOLEAN :
        /\ cmdExec(execOk)

CmdWriteEnd ==
    \E ok \in BOOLEAN :
        /\ cmdWriteEnd(ok)

CmdKill ==
    /\ cmdKill

CmdReturn ==
    /\ cmdReturn

RelayRead ==
    \E eof \in BOOLEAN :
        /\ relayRead(eof)

RelayWriteEnd ==
    \E ok \in BOOLEAN :
        /\ relayWriteEnd(ok)

CmdWritePanic ==
    /\ cmdWritePanic

RelayWritePanic ==
    /\ relayWritePanic

LogCmdExit ==
    /\ logCmdExit

ResolveCall ==
    /\ Len(idOut) < MaxCalls
    /\ idOut' = Append(idOut, Resolve(idIn[1], idIn[2]))
    /\ UNCHANGED <<idIn, container, volume, files, pending, last, ConsoleVars>>

(***************************************************************************)
(* Specifications.                                                         *)
(***************************************************************************)
InitHttp ==
    /\ volume = {}
    /\ files = {}
    /\ pending = [i \in Ids |-> 0]
    /\ last = NoResponse

InitConsole ==
    /\ cpc = "idle"
    /\ rpc = "none"
    /\ sess = NoSession

InitId ==
    /\ idIn = <<<<>>, <<>>>>
    /\ idOut = <<>>

\* The agent after main has registered its routes: no container, no directory.
Init ==
    /\ container = [i \in Ids |-> "Absent"]
    /\ InitHttp
    /\ InitConsole
    /\ InitId

Next ==
    \/ CreateRequest
    \/ CreateRuntime
    \/ StartRequest
    \/ StopRequest
    \/ RestartRequest
    \/ StatusRequest
    \/ ConsoleRequest
    \/ FileManagerRequest
    \/ FileUploadRequest
    \/ FileDownloadRequest

Spec == Init /\ [][Next]_vars

\* The agent of Spec together with the two handlers of files/.
FilesNext ==
    \/ Next
    \/ UploadFileCall
    \/ DeleteFileCall

FilesSpec == Init /\ [][FilesNext]_vars

\* One console session against a runtime left by earlier lifecycle
\* requests: the containers of the identities Create and Start accept are
\* all in one, arbitrary, state, and their directories exist if they do.
ConsoleSpecInit ==
    /\ \E st \in ContainerStates :
           /\ container = [i \in Ids |-> IF i \in Dirs \ {<<>>} THEN st ELSE "Absent"]
           /\ volume = IF st = "Absent" THEN {} ELSE Dirs \ {<<>>}
    /\ files = {}
    /\ pending = [i \in Ids |-> 0]
    /\ last = NoResponse
    /\ InitConsole
    /\ InitId

ConsoleNext ==
    \/ ConsoleRequest
    \/ ConsoleInit
    \/ CmdRead
    \/ CmdExec
    \/ CmdWriteEnd
    \/ CmdKill
    \/ CmdReturn
    \/ RelayRead
    \/ RelayWriteEnd
    \/ CmdWritePanic
    \/ RelayWritePanic
    \/ LogCmdExit

ConsoleSpec == ConsoleSpecInit /\ [][ConsoleNext]_vars

\* The console session with the relay goroutine scheduled fairly: a Read
\* on the log-follow pipe that can return does return, and so does a
\* WriteMessage the relay is in.  Nothing is assumed of the peer, of the
\* subprocess ending by itself or of the command loop.
\* The session reads the runtime only through docker exec, which can
\* succeed or fail on a running container and only fail otherwise: with the
\* containers Running every behaviour of the session is possible.
ConsoleLiveInit ==
    /\ ConsoleSpecInit
    /\ \A i \in Dirs \ {<<>>} : container[i] = "Running"

ConsoleLiveSpec ==
    /\ ConsoleLiveInit
    /\ [][ConsoleNext]_vars
    /\ WF_vars(RelayRead)
    /\ WF_vars(RelayWriteEnd)

\* The two resolutions the specification's scenarios name.
Lobby == <<"l", "o", "b", "b", "y">>
Alice == <<"a", "l", "i", "c", "e">>
Bob == <<"b", "o", "b">>
ExampleCom == <<"e", "x", "a", "m", "p", "l", "e", ".", "c", "o", "m">>

Scenarios ==
    { <<Lobby, Alice \o <<"@">> \o ExampleCom>>,
      <<Lobby \o <<"!", "!">>, Bob>> }

\* The resolver applied, MaxCalls times, to one drawn (serverName, userEmail).
ResolverInit ==
    /\ idIn \in (Strs \X Strs) \cup Scenarios
    /\ idOut = <<>>
    /\ container = [i \in Ids |-> "Absent"]
    /\ InitHttp
    /\ InitConsole

ResolverNext == ResolveCall

ResolverSpec == ResolverInit /\ [][ResolverNext]_vars

(***************************************************************************)
(* Properties.                                                             *)
(***************************************************************************)
\* The step just taken answered a request on this route after running a
\* runtime subcommand for it (so the request passed the middleware and the
\* handler's validation).
RanFor(route) ==
    /\ last' # last
    /\ last'.route = route
    /\ last'.cmd # "none"

\* C1: Start on an identity whose container is Absent performs a full run
\* (create and start), answers success, and Status then reports Running.
C1_StartSelfProvisions ==
    [][ (RanFor("/server/start") /\ container[last'.id] = "Absent")
        => /\ last'.code = 200
           /\ container'[last'.id] = "Running"
           /\ StatusReport(container'[last'.id]) = <<200, "running">> ]_vars

\* C2: Create is idempotent: when the container definition already exists,
\* Create answers success and leaves the definition as it was.
C2_CreateIdempotent ==
    [][ (RanFor("/server/create") /\ last'.cmd = "create"
         /\ container[last'.id] # "Absent")
        => /\ last'.code = 200
           /\ container'[last'.id] = container[last'.id] ]_vars

\* C3: Stop on an identity whose container was never created answers a
\* failure (500), never success, and the container stays Absent.
C3_StopAbsentFails ==
    [][ (RanFor("/server/stop") /\ container[last'.id] = "Absent")
        => /\ last'.code = 500
           /\ container'[last'.id] = "Absent"
           /\ container' = container ]_vars

C3_Witness ==
    /\ last.route = "/server/stop"
    /\ last.cmd = "stop"
    /\ last.pre = "Absent"
    /\ last.code = 500
    /\ container[last.id] = "Absent"
    /\ \E i \in Ids : container[i] = "Running"

\* C9: Start on an identity whose container exists but is not running
\* (Created or Stopped) issues a plain start against that identity, creates
\* no container, answers success, and Status then reports Running.
C9_StartExisting ==
    [][ (RanFor("/server/start") /\ container[last'.id] \in {"Created", "Stopped"})
        => /\ last'.code = 200
           /\ last'.cmd = "start"
           /\ StatusReport(container'[last'.id]) = <<200, "running">>
           /\ \A i \in Ids \ {last'.id} : container'[i] = container[i] ]_vars

C9_Witness ==
    /\ last.route = "/server/start"
    /\ last.cmd = "start"
    /\ last.pre = "Stopped"
    /\ last.code = 200
    /\ StatusReport(container[last.id]) = <<200, "running">>

\* C8: a request to any registered route whose Authorization header is
\* absent, lacks the "Bearer " prefix or carries another token than the
\* configured one is answered 401 and no handler runs: the runtime, the
\* directories, the files and the console session are as before.
C8_UnauthorizedRejected ==
    [][ \A auth \in Headers \ {Bearer \o Token}, route \in Routes :
            Serve(route, auth)
            => /\ last'.route = route
               /\ last'.code = 401
               /\ last'.cmd = "none"
               /\ UNCHANGED <<container, volume, files, pending, cpc, rpc, sess>> ]_vars

C8_Witness ==
    /\ last.code = 401
    /\ last.route = "/server/stop"
    /\ \E i \in Ids : container[i] = "Running"

\* The part of an email before its first '@'; the whole email without one.
LocalPart(email) ==
    IF \E i \in 1..Len(email) : email[i] = "@"
    THEN LET at == CHOOSE i \in 1..Len(email) :
                       email[i] = "@" /\ \A j \in 1..(i - 1) : email[j] # "@"
         IN  SubSeq(email, 1, at - 1)
    ELSE email

IsNameChar(c) == c \in Lower \/ c \in Upper \/ c \in Digit \/ c = "." \/ c = "-"

\* C10: for non-empty serverName and userEmail the resolved identity is
\* serverName, "-" and the email's local part with exactly the characters
\* outside [A-Za-z0-9.-] removed and the others kept in order; it is the
\* same on every call, non-empty and made of [A-Za-z0-9.-] only; the two
\* scenarios resolve to "lobby-alice" and "lobby-bob".
C10_ResolvedIdentity ==
    /\ \A k \in 1..Len(idOut) :
           (idIn[1] # <<>> /\ idIn[2] # <<>>)
           => /\ idOut[k] = SelectSeq(idIn[1] \o <<"-">> \o LocalPart(idIn[2]), IsNameChar)
              /\ idOut[k] = idOut[1]
              /\ idOut[k] # <<>>
              /\ \A i \in 1..Len(idOut[k]) : IsNameChar(idOut[k][i])
    /\ (idOut # <<>> /\ idIn = <<Lobby, Alice \o <<"@">> \o ExampleCom>>)
           => idOut[1] = Lobby \o <<"-">> \o Alice
    /\ (idOut # <<>> /\ idIn = <<Lobby \o <<"!", "!">>, Bob>>)
           => idOut[1] = Lobby \o <<"-">> \o Bob

C10_Witness ==
    /\ Len(idOut) >= 2
    /\ idIn = << <<"a", "!">>, <<"Z", "@">> >>
    /\ idOut[2] = <<"a", "-", "Z">>

\* C4: when the initial control message of a console session does not
\* parse, the session sends exactly one error frame, starts neither the
\* log-follow subprocess nor the relay task, and the connection is closed.
C4_MalformedInitCloses ==
    sess.initBad
    => /\ sess.sent = <<Frame("cmd", "initError", 0)>>
       /\ sess.logCmd = "none"
       /\ rpc = "none"
       /\ cpc = "returned"
       /\ sess.conn = "closed"
       /\ sess.chunks = 0

C4_Witness ==
    /\ sess.initBad
    /\ cpc = "returned"
    /\ Len(sess.sent) = 1

IsResult(f) == f.by = "cmd" /\ f.kind \in {"result", "failed"}

Results == SelectSeq(sess.sent, IsResult)

\* C5: whenever the command loop is at its inbound read, every frame with
\* action "command" and a non-empty command read so far has caused exactly
\* one in-container execution and exactly one result frame (success output
\* or failure text) from the command loop; at most one execution is in
\* flight, and result frames appear in the order of their commands.
C5_OneResultPerCommand ==
    /\ cpc = "loopRead" => (sess.execs = sess.cmds /\ Len(Results) = sess.cmds)
    /\ cpc = "exec" => (sess.execs + 1 = sess.cmds /\ Len(Results) + 1 = sess.cmds)
    /\ sess.cmds \in {sess.execs, sess.execs + 1}
    /\ Len(Results) <= sess.execs
    /\ \A i, j \in 1..Len(Results) : i < j => Results[i].n < Results[j].n

C5_Witness ==
    /\ cpc = "loopRead"
    /\ sess.cmds = 2
    /\ Len(Results) = 2
    /\ Results[1].kind = "failed"
    /\ \E i \in 1..Len(sess.sent) : sess.sent[i].by = "relay"

\* C6: a console session that started a log-follow subprocess has issued a
\* kill to it by the time consoleHandler has returned.
C6_KillBeforeReturn ==
    (cpc = "returned" /\ sess.logCmd # "none") => sess.killIssued

\* C7: the relay task and the command loop are never both inside a write
\* on the session's connection.
C7_SingleWriter ==
    ~(cpc = "writing" /\ rpc = "writing")

\* C11: no step of the agent, the file upload and delete handlers included,
\* removes a volume directory: a directory that exists before a step exists
\* after it.
C11_VolumeNeverDeleted ==
    [][ \A i \in Ids : i \in volume => i \in volume' ]_vars

\* C12: after any Start that passed validation and reached the runtime, the
\* volume directory of its identity exists.
C12_StartEnsuresVolume ==
    [][ RanFor("/server/start") => last'.id \in volume' ]_vars

\* C13: once a write on the session's connection has failed, the command
\* loop reads no further inbound frame.
C13_WriteFailureCloses ==
    [][ (sess.werr /\ cpc = "loopRead") => sess'.inbound = sess.inbound ]_vars

\* C20: a console session whose initial message parsed with an empty or
\* missing serverName or userEmail has no log-follow subprocess.
C20_NoSpawnOnEmptyName ==
    sess.emptyName => sess.logCmd = "none"

\* A frame that parses, with action "command" and a non-empty command.
IsCommand(frame) ==
    ~frame.err /\ frame.jsonOk /\ frame.action = "command" /\ frame.command # ""

\* C14: the step on which the log-follow stream ends (end-of-stream or read
\* error) ends the relay only: the command loop's position and the session
\* (connection open, no kill issued) are as before.  With the relay ended,
\* the command loop still accepts a command frame, a command frame read is
\* executed, and the execution is answered with one result frame.
C14_RelayEndKeepsSession ==
    [][ /\ (rpc = "read" /\ rpc' = "done") => (cpc' = cpc /\ sess' = sess)
        /\ (rpc = "done" /\ cpc = "loopRead" /\ sess.inbound < MaxInbound)
               => \A frame \in InboundFrames : IsCommand(frame) => ENABLED cmdRead(frame)
        /\ \A frame \in InboundFrames :
               (rpc = "done" /\ IsCommand(frame) /\ cmdRead(frame)) => cpc' = "exec"
        /\ (rpc = "done" /\ cpc = "exec" /\ cpc' # cpc)
               => /\ cpc' = "writing"
                  /\ sess'.execs = sess.execs + 1
                  /\ \E kind \in {"result", "failed"} :
                         sess'.sent = Append(sess.sent, Frame("cmd", kind, sess.inbound))
        /\ (rpc = "done" /\ cpc = "writing" /\ cpc' # cpc)
               => (cpc' = "loopRead" /\ sess'.conn = sess.conn
                   /\ sess'.killIssued = sess.killIssued) ]_vars

C14_Witness ==
    /\ rpc = "done"
    /\ sess.logCmd = "exited"
    /\ sess.chunks = 0
    /\ cpc = "loopRead"
    /\ sess.conn = "open"
    /\ ~sess.killIssued
    /\ sess.cmds = 2
    /\ Len(Results) = 2

\* C16: the command loop goes to an execution only on a frame that parses
\* with action "command" and a non-empty command, and an execution is
\* counted only from there; a parsed frame with another action or an empty
\* command causes no execution and no outbound frame, and the loop is at
\* its read again with the connection open and no kill issued.
C16_OnlyCommandsExecute ==
    [][ /\ \A frame \in InboundFrames :
               cmdRead(frame)
               => /\ cpc' = "exec" => IsCommand(frame)
                  /\ (~frame.err /\ frame.jsonOk /\ ~IsCommand(frame))
                         => /\ cpc' = "loopRead"
                            /\ sess'.inbound = sess.inbound + 1
                            /\ sess'.execs = sess.execs
                            /\ sess'.sent = sess.sent
                            /\ sess'.conn = "open"
                            /\ sess'.killIssued = sess.killIssued
                            /\ sess'.logCmd = sess.logCmd
        /\ sess'.execs # sess.execs => (cpc = "exec" /\ sess.cmds = sess.execs + 1) ]_vars

C16_Witness ==
    /\ cpc = "loopRead"
    /\ sess.inbound = 2
    /\ sess.cmds = 0
    /\ sess.execs = 0
    /\ \A i \in 1..Len(sess.sent) : sess.sent[i].by = "relay"
    /\ sess.conn = "open"
    /\ sess.logCmd = "running"

IsLog(f) == f.by = "relay"

LogFrames == SelectSeq(sess.sent, IsLog)

\* C17: the log frames handed to the connection are exactly the chunks read
\* from the log-follow stream so far, in the order read: the i-th log frame
\* carries the i-th chunk, none twice, none left out (also after a write
\* has failed).
C17_LogsInArrivalOrder ==
    /\ Len(LogFrames) = sess.chunks
    /\ \A i \in 1..Len(LogFrames) : LogFrames[i] = Frame("relay", "log", i)

C17_Witness ==
    /\ Len(LogFrames) = 2
    /\ Len(sess.sent) = 3
    /\ sess.sent[2].by = "cmd"
    /\ sess.werr
    /\ rpc = "read"

IsCmdFrame(f) == f.by = "cmd"

CmdFrames == SelectSeq(sess.sent, IsCmdFrame)

\* The command loop is inside the write of a parse-failure error frame.
PayloadErrorWrite ==
    /\ cpc = "writing"
    /\ CmdFrames # <<>>
    /\ CmdFrames[Len(CmdFrames)].kind = "payloadError"

\* C15: an inbound frame of an attached session that fails to parse hands
\* exactly one error frame to the connection and runs nothing, and the
\* command loop's next position after that write is its inbound read, with
\* the connection open and no kill issued.
C15_ParseFailureKeepsSession ==
    [][ /\ \A frame \in InboundFrames :
               (cmdRead(frame) /\ ~frame.err /\ ~frame.jsonOk)
               => /\ sess'.sent = Append(sess.sent,
                                         Frame("cmd", "payloadError", sess.inbound + 1))
                  /\ sess'.execs = sess.execs
                  /\ sess'.killIssued = sess.killIssued
        /\ (PayloadErrorWrite /\ cpc' # cpc)
               => /\ cpc' = "loopRead"
                  /\ sess'.conn = "open"
                  /\ ~sess'.killIssued ]_vars

\* C18: a Create is handed on to its runtime part only with the identity's
\* volume directory in place (so not when directory creation failed); every
\* runtime step of a Create (docker pull, docker create) finds the directory
\* in place; a docker create on an Absent identity succeeds and leaves the
\* container Created; no Create step puts a container in another state than
\* Created; and a Create answered 500 before any runtime command has left
\* the runtime, the directories and the pending work as they were.
C18_CreateProvisionsFirst ==
    [][ /\ \A id \in Ids :
               /\ pending'[id] > pending[id] => (id \in volume' /\ container' = container)
               /\ pending'[id] < pending[id]
                      => /\ id \in volume
                         /\ last'.route = "/server/create"
                         /\ last'.id = id
                         /\ last'.cmd \in {"pull", "create"}
                         /\ (last'.cmd = "create" /\ container[id] = "Absent")
                                => (last'.code = 200 /\ container'[id] = "Created")
                         /\ \A i \in Ids : container'[i] # container[i]
                                              => (i = id /\ container'[i] = "Created")
        /\ (last' # last /\ last'.route = "/server/create" /\ last'.cmd = "none")
               => (pending' = pending /\ container' = container /\ volume' = volume) ]_vars

C18_Witness ==
    /\ last.route = "/server/create"
    /\ last.code = 500
    /\ last.cmd = "none"
    /\ last.id # <<>>
    /\ last.id \notin volume
    /\ \E i \in Ids : container[i] = "Created" /\ i \in volume

\* serverName or userEmail is missing or empty in a decoded body.
MissingName(body) == body.serverName = <<>> \/ body.userEmail = <<>>

\* The step answered with this code and did nothing else.
RejectedWith(code) ==
    /\ last'.code = code
    /\ last'.cmd = "none"
    /\ UNCHANGED <<container, volume, files, pending>>

\* Start, Stop, Restart and Status on a request with a missing or empty
\* serverName or userEmail.
RejectsMissingName ==
    /\ last'.route = "/server/start"
           => \A b \in LifecycleBodies :
                  (MissingName(b) /\ startServerHandler(b)) => RejectedWith(400)
    /\ last'.route = "/server/stop"
           => \A b \in LifecycleBodies :
                  (MissingName(b) /\ stopServerHandler(b)) => RejectedWith(400)
    /\ last'.route = "/server/restart"
           => \A b \in LifecycleBodies :
                  (MissingName(b) /\ restartServerHandler(b)) => RejectedWith(400)
    /\ last'.route = "/server/status"
           => \A n \in ServerNames, e \in UserEmails :
                  ((n = <<>> \/ e = <<>>) /\ serverStatusHandler(n, e))
                  => RejectedWith(400)

\* C19 as stated: every lifecycle request with a missing or empty required
\* field is answered 400 and changes neither the runtime, the directories,
\* the files nor the pending work.
C19_MissingFieldIs400 ==
    [][ /\ RejectsMissingName
        /\ last'.route = "/server/create"
               => \A in \in CreateInputs :
                      ((MissingName(in[2]) \/ in[2].software = <<>>)
                       /\ createServerHandler(in[1], in[2], in[3]))
                      => RejectedWith(400) ]_vars

\* C19 amended: as above, but a Create whose method is not POST is answered
\* 405 (its body is not read), with no effect either.
C19_MissingFieldRejected ==
    [][ /\ RejectsMissingName
        /\ last'.route = "/server/create"
               => \A in \in CreateInputs :
                      ((MissingName(in[2]) \/ in[2].software = <<>>)
                       /\ createServerHandler(in[1], in[2], in[3]))
                      => RejectedWith(IF in[1] = "POST" THEN 400 ELSE 405) ]_vars

C19_Witness ==
    /\ last.route = "/server/restart"
    /\ last.code = 400
    /\ last.cmd = "none"
    /\ \E i \in Ids : container[i] = "Stopped" /\ i \in volume

\* C21: once the command loop has left its loop and issued the kill of the
\* log-follow subprocess, the relay's read eventually returns an error and
\* the relay task ends.
C21_RelayEndsAfterKill ==
    sess.killIssued ~> (rpc = "done")

C21_Witness ==
    /\ sess.killIssued
    /\ sess.logCmd = "killed"
    /\ cpc = "returned"
    /\ sess.conn = "closed"
    /\ rpc = "done"
    /\ sess.chunks = MaxChunks

====
